---- MODULE Spec2Model ----
(***************************************************************************)
(* Interactive Sound Wave Visualizer (src/app.py): one run of the script.  *)
(*                                                                         *)
(* Real numbers are carried exactly on rational grids:                     *)
(*   positions x            in units of 1/XDen                             *)
(*   time points            in units of 1/TDen                             *)
(*   angles (radians)       in units of pi/PiU                             *)
(*   cycle positions        in units of 1/CycDen                           *)
(*   amplitude, damping, speed in slider steps (1/AmpDen, 1/DampDen,       *)
(*                          1/SpeedDen)                                    *)
(*   displacements y        in units of 1/(AmpDen * ExpScale)              *)
(* np.sin and np.exp are fixed-point evaluations (scale SinScale,          *)
(* ExpScale); IEEE rounding of the doubles is not represented.             *)
(***************************************************************************)
EXTENDS Integers, Sequences, FiniteSets, TLC

VARIABLES
    waveform, freq, amplitude, phase, damping, speed, color,
    show_envelope, show_particles, grid_visible, dark_mode,
    pc, frames, frame_idx, placeholder, progress_bar, warning,
    ticks, rendered,
    x_in, t_in, y_out

controls == <<waveform, freq, amplitude, phase, damping, speed, color,
              show_envelope, show_particles, grid_visible, dark_mode>>
runstate == <<pc, frames, frame_idx, placeholder, progress_bar, warning,
              ticks, rendered>>
evalstate == <<x_in, t_in, y_out>>
vars == <<controls, runstate, evalstate>>

-----------------------------------------------------------------------------
(* Bounds of the model *)

\* display ticks of the endless playback loop that are explored
MaxTicks == 43
\* sample positions per frame (the script draws 1000 on [0,2])
NumSamples == 9
\* particle positions per frame (the script draws 30 on [0,2])
NumParticles == 5

-----------------------------------------------------------------------------
(* Program constants and units *)

NumFrames == 20
AmpDen == 10
DampDen == 100
SpeedDen == 10
XDen == 360
SinScale == 10000
SinShift == 256
ExpScale == 10000

TDen == NumFrames - 1
PiU == 180 * TDen
CycDen == 2 * PiU
XMax == 2 * XDen

Abs(v) == IF v < 0 THEN -v ELSE v
Sign(v) == IF v > 0 THEN 1 ELSE IF v < 0 THEN -1 ELSE 0

\* np.linspace(start, stop, num): num points, both end points included
Linspace(start, stop, num) ==
    [i \in 1..num |-> start + ((stop - start) * (i - 1)) \div (num - 1)]

\* np.deg2rad
deg2rad(deg) == (deg * PiU) \div 180

\* np.sin of an angle u >= 0, scaled by SinScale (Bhaskara's rational form on
\* the half cycle; exactly 0 at the multiples of pi, of the sign of the sine
\* everywhere else)
Sin(u) ==
    LET m == u % (2 * PiU)
        h == m % PiU
        q == h * (PiU - h)
        mag == (((16 * q) \div SinShift) * SinScale)
                   \div ((5 * PiU * PiU - 4 * q) \div SinShift)
    IN  IF m < PiU THEN mag ELSE -mag

\* np.exp of a fixed-point argument a (scale ExpScale), |a| < 1
Exp(a) ==
    LET S == ExpScale
        t4 == S + a \div 4
        t3 == S + (a * t4) \div (3 * S)
        t2 == S + (a * t3) \div (2 * S)
    IN  S + (a * t2) \div S

-----------------------------------------------------------------------------
(* Sidebar controls *)

WaveformOptions_Open == <<"Sine", "Square", "Sawtooth", "Triangle", "Noise">>
WaveformOptions == <<"Sine", "Square", "Sawtooth", "Triangle">>

Range(s) == {s[i] : i \in DOMAIN s}

\* values of the sliders that are explored (each inside the slider's range)
Freqs == {1, 2, 5}
Amplitudes == {8, 10}
Phases == {0, 90}
Dampings == {0, 20}
Speeds == {5, 10}
Colors == {"#1E90FF"}
\* <<show_envelope, show_particles, grid_visible, dark_mode>>
Toggles == {<<FALSE, FALSE, TRUE, FALSE>>, <<TRUE, TRUE, FALSE, TRUE>>}

ControlsInit ==
    /\ waveform \in Range(WaveformOptions)
    /\ freq \in Freqs
    /\ amplitude \in Amplitudes
    /\ phase \in Phases
    /\ damping \in Dampings
    /\ speed \in Speeds
    /\ color \in Colors
    /\ \E tg \in Toggles :
          /\ show_envelope = tg[1]
          /\ show_particles = tg[2]
          /\ grid_visible = tg[3]
          /\ dark_mode = tg[4]

-----------------------------------------------------------------------------
(* generate_waveform *)

phase_adjusted_NoFreq(time_point, f, phase_rad) ==
    phase_rad + (time_point * 2 * PiU * speed) \div (TDen * SpeedDen)
\* phase_rad + time_point * freq * 2 * np.pi * speed
phase_adjusted(time_point, f, phase_rad) ==
    phase_rad + (time_point * f * 2 * PiU * speed) \div (TDen * SpeedDen)

effective_amp_Growing(x, amp, damp) ==
    IF damp > 0
    THEN amp * Exp((damp * Abs(x) * ExpScale) \div (DampDen * XDen))
    ELSE amp * ExpScale
\* amp * np.exp(-damping * np.abs(x)) if damping > 0, else amp
effective_amp(x, amp, damp) ==
    IF damp > 0
    THEN amp * Exp(-((damp * Abs(x) * ExpScale) \div (DampDen * XDen)))
    ELSE amp * ExpScale

\* 2 * np.pi * freq * x + phase_adjusted
SineArg(x, f, pa) == (2 * PiU * f * x) \div XDen + pa

CyclePos_NoFreq(x, f, pa) ==
    ((x * CycDen) \div XDen + (pa * CycDen) \div (2 * PiU)) % CycDen
\* (freq * x + phase_adjusted/(2*np.pi)) % 1
CyclePos(x, f, pa) ==
    ((f * x * CycDen) \div XDen + (pa * CycDen) \div (2 * PiU)) % CycDen

SquareShape_NoZero(u) == IF Sin(u) >= 0 THEN 1 ELSE -1
\* np.sign(np.sin(u))
SquareShape(u) == Sign(Sin(u))

\* no displacement array (the function falls off its last elif)
None == << >>

generate_waveform(x, time_point, waveform_type, f, amp, phase_rad, damp) ==
    LET pa == phase_adjusted(time_point, f, phase_rad)
        ea(j) == effective_amp(x[j], amp, damp)
    IN  IF waveform_type = "Sine"
        THEN [j \in DOMAIN x |->
                 (ea(j) * Sin(SineArg(x[j], f, pa))) \div SinScale]
        ELSE IF waveform_type = "Square"
        THEN [j \in DOMAIN x |-> ea(j) * SquareShape(SineArg(x[j], f, pa))]
        ELSE IF waveform_type = "Sawtooth"
        THEN [j \in DOMAIN x |->
                 (ea(j) * (2 * CyclePos(x[j], f, pa) - CycDen)) \div CycDen]
        ELSE IF waveform_type = "Triangle"
        THEN [j \in DOMAIN x |->
                 (ea(j) * (2 * Abs(2 * CyclePos(x[j], f, pa) - CycDen) - CycDen))
                     \div CycDen]
        ELSE None

-----------------------------------------------------------------------------
(* create_animation_frame *)

create_animation_frame(time_point) ==
    LET phase_rad == deg2rad(phase)
        x == Linspace(0, XMax, NumSamples)
        particle_x == Linspace(0, XMax, NumParticles)
    IN  [ id |-> rendered + 1,
          time_point |-> time_point,
          style |-> IF dark_mode THEN "dark_background" ELSE "default",
          grid |-> grid_visible,
          color |-> color,
          y |-> generate_waveform(x, time_point, waveform, freq, amplitude,
                                  phase_rad, damping),
          envelope_up |->
              IF show_envelope /\ damping > 0
              THEN [j \in DOMAIN x |->
                       amplitude * Exp(-((damping * Abs(x[j]) * ExpScale)
                                             \div (DampDen * XDen)))]
              ELSE << >>,
          particle_y |->
              IF show_particles
              THEN generate_waveform(particle_x, time_point, waveform, freq,
                                     amplitude, phase_rad, damping)
              ELSE << >>,
          info_text |-> <<waveform, freq, amplitude>> ]

-----------------------------------------------------------------------------
(* update_animation and the try/except around it *)

time_points == Linspace(0, TDen, NumFrames)

Init ==
    /\ ControlsInit
    /\ pc = "try"
    /\ frames = << >>
    /\ frame_idx = 0
    /\ placeholder = << >>
    /\ progress_bar = << >>
    /\ warning = FALSE
    /\ ticks = 0
    /\ rendered = 0
    /\ x_in = << >>
    /\ t_in = 0
    /\ y_out = << >>

\* lines 236-240: time points, empty frame list, progress bar at 0
StartAnimation ==
    /\ pc = "try"
    /\ pc' = "gen"
    /\ frames' = << >>
    /\ progress_bar' = <<0>>
    /\ UNCHANGED <<frame_idx, placeholder, warning, ticks, rendered>>
    /\ UNCHANGED <<controls, evalstate>>

GenerateFrame_Streaming ==
    /\ pc = "gen"
    /\ Len(frames) < NumFrames
    /\ LET i == Len(frames)
           img == create_animation_frame(time_points[i + 1])
       IN  \/ /\ frames' = Append(frames, img)
              /\ rendered' = rendered + 1
              /\ progress_bar' = <<i + 1>>
              /\ placeholder' = <<img>>
              /\ pc' = "gen"
           \/ /\ pc' = "except"
              /\ UNCHANGED <<frames, rendered, progress_bar, placeholder>>
    /\ UNCHANGED <<frame_idx, warning, ticks>>
    /\ UNCHANGED <<controls, evalstate>>
\* lines 241-243: one pass of the for loop; create_animation_frame returns
\* the image or raises
GenerateFrame ==
    /\ pc = "gen"
    /\ Len(frames) < NumFrames
    /\ LET i == Len(frames)
       IN  \/ /\ frames' = Append(frames,
                                  create_animation_frame(time_points[i + 1]))
              /\ rendered' = rendered + 1
              /\ progress_bar' = <<i + 1>>
              /\ pc' = "gen"
           \/ /\ pc' = "except"
              /\ UNCHANGED <<frames, rendered, progress_bar>>
    /\ UNCHANGED <<frame_idx, placeholder, warning, ticks>>
    /\ UNCHANGED <<controls, evalstate>>

\* lines 245-248: the for loop is exhausted; the bar is removed, frame_idx = 0
StartPlayback ==
    /\ pc = "gen"
    /\ Len(frames) = Len(time_points)
    /\ progress_bar' = << >>
    /\ frame_idx' = 0
    /\ pc' = "play"
    /\ UNCHANGED <<frames, placeholder, warning, ticks, rendered>>
    /\ UNCHANGED <<controls, evalstate>>

NextFrameIdx_Skip(idx, n) == (idx + 2) % n
\* (frame_idx + 1) % len(frames)
NextFrameIdx(idx, n) == (idx + 1) % n

\* lines 249-252: one pass of the while loop; the image call shows the frame
\* or raises
DisplayFrame ==
    /\ pc = "play"
    /\ ticks < MaxTicks
    /\ \/ /\ placeholder' = <<frames[frame_idx + 1]>>
          /\ frame_idx' = NextFrameIdx(frame_idx, Len(frames))
          /\ ticks' = ticks + 1
          /\ pc' = "play"
       \/ /\ pc' = "except"
          /\ UNCHANGED <<placeholder, frame_idx, ticks>>
    /\ UNCHANGED <<frames, progress_bar, warning, rendered>>
    /\ UNCHANGED <<controls, evalstate>>

ShowStatic_Retry ==
    /\ pc = "except"
    /\ pc' = "try"
    /\ UNCHANGED <<frames, frame_idx, placeholder, progress_bar, warning,
                   ticks, rendered>>
    /\ UNCHANGED <<controls, evalstate>>
\* line 259, inside the bare except: a frame for time point 0 is created and
\* shown; either call may raise, and nothing catches that
ShowStatic ==
    /\ pc = "except"
    /\ \/ /\ placeholder' = <<create_animation_frame(0)>>
          /\ rendered' = rendered + 1
          /\ pc' = "warn"
       \/ /\ pc' = "raised"
          /\ UNCHANGED <<placeholder, rendered>>
    /\ UNCHANGED <<frames, frame_idx, progress_bar, warning, ticks>>
    /\ UNCHANGED <<controls, evalstate>>

\* line 260: st.warning
Warn ==
    /\ pc = "warn"
    /\ warning' = TRUE
    /\ pc' = "done"
    /\ UNCHANGED <<frames, frame_idx, placeholder, progress_bar, ticks,
                   rendered>>
    /\ UNCHANGED <<controls, evalstate>>

Next ==
    \/ StartAnimation
    \/ GenerateFrame
    \/ StartPlayback
    \/ DisplayFrame
    \/ ShowStatic
    \/ Warn

Spec == Init /\ [][Next]_vars

-----------------------------------------------------------------------------
(* The evaluator on its own: generate_waveform applied to drawn inputs *)

\* positions the evaluator is applied to
EvalPositions == {0, 9, 45, 90, 180, 270, 315, 360, 720}

\* control values the evaluator is applied under (each inside its range)
EvalFreqs == {1, 2, 5, 20}
EvalAmplitudes == {1, 8, 10}
EvalPhases == {0, 45, 90, 180, 270, 360}
EvalDampings == {0, 1, 20}
EvalSpeeds == {1, 5, 10, 20}

EvalInit ==
    /\ waveform \in Range(WaveformOptions)
    /\ freq \in EvalFreqs
    /\ amplitude \in EvalAmplitudes
    /\ phase \in EvalPhases
    /\ damping \in EvalDampings
    /\ speed \in EvalSpeeds
    /\ color \in Colors
    /\ show_envelope = FALSE
    /\ show_particles = FALSE
    /\ grid_visible = TRUE
    /\ dark_mode = FALSE
    /\ pc = "eval"
    /\ frames = << >>
    /\ frame_idx = 0
    /\ placeholder = << >>
    /\ progress_bar = << >>
    /\ warning = FALSE
    /\ ticks = 0
    /\ rendered = 0
    /\ x_in = << >>
    /\ t_in = 0
    /\ y_out = << >>

\* y at x and at x + 1/freq for one time point
Evaluate ==
    /\ pc = "eval"
    /\ \E x \in EvalPositions, i \in 1..NumFrames :
          /\ x_in' = <<x, x + XDen \div freq>>
          /\ t_in' = time_points[i]
          /\ y_out' = generate_waveform(x_in', t_in', waveform, freq,
                                        amplitude, deg2rad(phase), damping)
    /\ pc' = "evaluated"
    /\ UNCHANGED <<frames, frame_idx, placeholder, progress_bar, warning,
                   ticks, rendered>>
    /\ UNCHANGED controls

EvalNext == Evaluate

EvalSpec == EvalInit /\ [][EvalNext]_vars

-----------------------------------------------------------------------------
(* Properties *)

Handling == {"except", "warn", "done", "raised"}

\* the frame the bare except shows: a fresh image for time point 0
IsStaticFrame(img) ==
    /\ img.time_point = 0
    /\ \A i \in 1..Len(frames) : frames[i] # img

\* C1: inside update_animation a generation pass that completes holds
\* exactly 20 frames, and a frame of the frame list is in the placeholder
\* only when all 20 frames have been generated.
C1_CollectBeforeDisplay ==
    /\ pc = "play" => Len(frames) = NumFrames
    /\ \A i \in 1..Len(frames) :
          placeholder = <<frames[i]>> => Len(frames) = NumFrames
    /\ (pc \in {"try", "gen"}) => placeholder = << >>

C1_Witness ==
    /\ pc = "play"
    /\ ticks = 1
    /\ Len(frames) = NumFrames
    /\ placeholder = <<frames[1]>>

\* C2: whenever frame generation or frame display raises, the run ends with
\* the static frame for t = 0 in the placeholder followed by the warning, and
\* the error never leaves the script.
C2_FallbackAlwaysCompletes ==
    /\ pc # "raised"
    /\ pc = "warn" =>
          /\ Len(placeholder) = 1
          /\ IsStaticFrame(placeholder[1])
          /\ ~warning
    /\ pc = "done" =>
          /\ Len(placeholder) = 1
          /\ IsStaticFrame(placeholder[1])
          /\ warning
          /\ rendered = Len(frames) + 1

\* C3: the k-th display tick (k from 0) puts the frame generated for time
\* point index k mod 20 into the placeholder, replacing what was there, and
\* the playback loop is left only by an error (to the except clause).
C3_CyclicPlayback ==
    [][ /\ ticks' = ticks + 1 =>
              /\ placeholder' = <<frames[(ticks % NumFrames) + 1]>>
              /\ placeholder'[1].time_point = time_points[(ticks % NumFrames) + 1]
              /\ frame_idx = ticks % NumFrames
              /\ frame_idx' = ticks' % NumFrames
        /\ pc = "play" => pc' \in {"play", "except"}
        /\ (pc = "play" /\ pc' = "play") => ticks' = ticks + 1 ]_vars

C3_Witness ==
    /\ pc = "play"
    /\ ticks = 2 * NumFrames + 1
    /\ frame_idx = 1
    /\ placeholder = <<frames[1]>>

\* C4: the time points of the generated frames start at 0, are equally
\* spaced, and every one of them, the 20th included, is strictly below 1.
C4_TimePointsHalfOpen ==
    /\ Len(frames) >= 1 => frames[1].time_point = 0
    /\ \A i \in 1..Len(frames) : frames[i].time_point < TDen
    /\ \A i \in 2..Len(frames) :
          frames[i].time_point - frames[i - 1].time_point
              = frames[2].time_point - frames[1].time_point

\* C5: the waveform kind is always one of the four kinds, and no evaluation
\* falls through generate_waveform's branches (no frame holds None for its
\* displacements).
C5_KindClosed ==
    /\ waveform \in {"Sine", "Square", "Sawtooth", "Triangle"}
    /\ \A i \in 1..Len(frames) :
          /\ frames[i].y # None
          /\ show_particles => frames[i].particle_y # None
    /\ \A i \in 1..Len(placeholder) : placeholder[i].y # None

C5_Witness ==
    /\ waveform = "Triangle"
    /\ Len(frames) = NumFrames
    /\ Len(frames[NumFrames].y) = NumSamples
    /\ show_particles
    /\ Len(frames[NumFrames].particle_y) = NumParticles

\* effective amplitude at position x, as the specification states it
EffectiveAmplitudeAt(x) ==
    IF damping > 0
    THEN amplitude * Exp(-((damping * Abs(x) * ExpScale) \div (DampDen * XDen)))
    ELSE amplitude * ExpScale

\* frac(frequency * x + effectivePhase / 2 pi), in units of 1/CycDen
FracCycleAt(x, t) ==
    ( (freq * x * CycDen) \div XDen
      + (phase * CycDen) \div 360
      + (t * freq * speed * CycDen) \div (TDen * SpeedDen) ) % CycDen

C7_PeriodicAnyDamping ==
    (pc = "evaluated" /\ waveform \in {"Sawtooth", "Triangle"}) =>
        y_out[1] = y_out[2]

\* C7: for Sawtooth and Triangle y(x) = y(x + 1/frequencyHz) whenever the
\* damping rate is 0 (every amplitude, phase, speed, position and time).
C7_PeriodicUndamped ==
    (pc = "evaluated" /\ waveform \in {"Sawtooth", "Triangle"} /\ damping = 0) =>
        /\ x_in[2] * freq = x_in[1] * freq + XDen
        /\ y_out[1] = y_out[2]

C7_Witness ==
    /\ pc = "evaluated"
    /\ waveform = "Sawtooth"
    /\ damping = 0
    /\ freq = 5
    /\ x_in = <<XDen \div 8, XDen \div 8 + XDen \div 5>>
    /\ y_out[1] = y_out[2]
    /\ y_out[1] # 0

\* C8: for Sine |y| never exceeds the effective amplitude at x: amplitude
\* when dampingRate is not above 0, amplitude * exp(-dampingRate * |x|)
\* when it is.
C8_SineBounded ==
    (pc = "evaluated" /\ waveform = "Sine") =>
        \A j \in 1..Len(x_in) :
            Abs(y_out[j]) <= EffectiveAmplitudeAt(x_in[j])

C8_Witness ==
    /\ pc = "evaluated"
    /\ waveform = "Sine"
    /\ damping > 0
    /\ x_in[1] > 0
    /\ y_out[1] = EffectiveAmplitudeAt(x_in[1])
    /\ y_out[1] < amplitude * ExpScale

\* C9: once the except clause has been entered, control never returns to
\* frame generation or playback, the frame list is never extended, and every
\* image put into the placeholder from then on is the static frame for
\* t = 0, which is none of the frames generated before the failure; it is
\* put there at most once.
C9_NoRetry ==
    [][ (pc \in Handling) =>
            ( /\ pc' \in Handling
              /\ frames' = frames
              /\ frame_idx' = frame_idx
              /\ ticks' = ticks
              /\ (placeholder' # placeholder) =>
                    ( /\ pc = "except"
                      /\ pc' = "warn"
                      /\ Len(placeholder') = 1
                      /\ placeholder'[1].time_point = 0
                      /\ \A i \in 1..Len(frames) :
                            frames[i] # placeholder'[1] ) ) ]_vars

C9_Witness ==
    /\ pc = "done"
    /\ Len(frames) = 7
    /\ Len(placeholder) = 1
    /\ IsStaticFrame(placeholder[1])
    /\ warning

====
